---- MODULE Spec2Model ----
(***************************************************************************)
(* A model of the Artemis Global Tracker message translator                *)
(* (Artemis_Global_Tracker_Message_Translator.py): the field registry, the *)
(* checksum, decode_message, encode_message, the hex codec                 *)
(* asc2bin / bin2asc, and the batch loops of get_messages and main_decode. *)
(*                                                                         *)
(* Bytes are integers 0..255, a bytes object is a sequence of them, a str  *)
(* is the sequence of its code points.  A Python dict is a sequence of     *)
(* <<key, value>> pairs in insertion order.  A raised exception is a       *)
(* record of its type and its message.                                     *)
(***************************************************************************)
EXTENDS Integers, Sequences, FiniteSets, TLC

VARIABLES
    prog,       \* the entry point this run exercises
    numpy,      \* the numpy build the program runs on (version-dependent casts)
    tc,         \* how the input of the run was put together
    cks,        \* checksum(): its argument and locals
    message,    \* decode_message(): its argument
    dec,        \* decode_message(): its locals (pc, ind, data) and raised exception
    data,       \* encode_message(): its argument
    enc,        \* encode_message(): what it returned or raised
    hex,        \* asc2bin() / bin2asc(): arguments and results
    batch       \* get_messages() / main_decode(): the buffers, the loop, the output

vars == <<prog, numpy, tc, cks, message, dec, data, enc, hex, batch>>

\* The element of a one-element set: The({e(x) : x \in {v}}) is e(v), with v
\* evaluated once.
The(S) == CHOOSE x \in S : TRUE

(***************************************************************************)
(* Sequences and bytes                                                     *)
(***************************************************************************)
Front(s) == SubSeq(s, 1, Len(s) - 1)

Last(s) == s[Len(s)]

\* Python slice s[a:b] for 0 <= a <= b (0-based, end exclusive, clipped to len(s)).
Slice(s, a, b) ==
    LET hi == IF b > Len(s) THEN Len(s) ELSE b
    IN  IF a >= hi THEN <<>> ELSE SubSeq(s, a + 1, hi)

\* Python s[i] for 0 <= i < len(s) (0-based).
At(s, i) == s[i + 1]

RECURSIVE Concat(_)
Concat(ss) == IF ss = <<>> THEN <<>> ELSE ss[1] \o Concat(Tail(ss))

RECURSIVE Pow(_, _)
Pow(b, n) == IF n = 0 THEN 1 ELSE b * Pow(b, n - 1)

\* All sequences over S of length 0..n.
SeqsUpTo(S, n) == UNION {[1..k -> S] : k \in 0..n}

(***************************************************************************)
(* IEEE-754 binary64 arithmetic, the arithmetic of Python's float and of   *)
(* numpy's float64: decode_message multiplies by a conversion factor and   *)
(* encode_message divides by it.  A natural number of any size is a        *)
(* little-endian sequence of limbs; a float is sign * man * 2^exp with man *)
(* of exactly 53 bits (or empty for zero).  Results are rounded to nearest,*)
(* ties to even.  Subnormals, infinities and NaN do not arise for the      *)
(* magnitudes of the message fields.                                       *)
(***************************************************************************)
LimbBits == 3 * 5

Limb == Pow(2, LimbBits)

MantBits == 50 + 3

RECURSIVE BNorm(_)
BNorm(x) == IF x # <<>> /\ Last(x) = 0 THEN BNorm(Front(x)) ELSE x

RECURSIVE BFromInt(_)
BFromInt(n) == IF n = 0 THEN <<>> ELSE <<n % Limb>> \o BFromInt(n \div Limb)

RECURSIVE BToInt(_)
BToInt(x) == IF x = <<>> THEN 0 ELSE x[1] + Limb * BToInt(Tail(x))

BLimb(x, i) == IF i <= Len(x) THEN x[i] ELSE 0

RECURSIVE BAddC(_, _, _, _)
BAddC(x, y, i, c) ==
    IF i > Len(x) /\ i > Len(y)
    THEN IF c = 0 THEN <<>> ELSE <<c>>
    ELSE LET s == BLimb(x, i) + BLimb(y, i) + c
         IN  <<s % Limb>> \o BAddC(x, y, i + 1, s \div Limb)

BAdd(x, y) == BAddC(x, y, 1, 0)

RECURSIVE BSubC(_, _, _, _)
BSubC(x, y, i, b) ==
    IF i > Len(x) THEN <<>>
    ELSE LET d == BLimb(x, i) - BLimb(y, i) - b
         IN  <<d % Limb>> \o BSubC(x, y, i + 1, IF d < 0 THEN 1 ELSE 0)

\* x - y for x >= y
BSub(x, y) == BNorm(BSubC(x, y, 1, 0))

RECURSIVE BCmpFrom(_, _, _)
BCmpFrom(x, y, i) ==
    IF i = 0 THEN 0
    ELSE IF x[i] < y[i] THEN -1
    ELSE IF x[i] > y[i] THEN 1
    ELSE BCmpFrom(x, y, i - 1)

\* -1, 0, 1 as x < y, x = y, x > y (both normalised)
BCmp(x, y) ==
    IF Len(x) < Len(y) THEN -1
    ELSE IF Len(x) > Len(y) THEN 1
    ELSE BCmpFrom(x, y, Len(x))

RECURSIVE BMulSmallC(_, _, _, _)
BMulSmallC(x, k, i, c) ==
    IF i > Len(x)
    THEN IF c = 0 THEN <<>> ELSE <<c>>
    ELSE LET p == x[i] * k + c
         IN  <<p % Limb>> \o BMulSmallC(x, k, i + 1, p \div Limb)

\* x * k for 0 <= k < Limb
BMulSmall(x, k) == BNorm(BMulSmallC(x, k, 1, 0))

BShiftLimbs(x, n) == IF x = <<>> THEN <<>> ELSE [i \in 1..n |-> 0] \o x

RECURSIVE BMul(_, _)
BMul(x, y) ==
    IF y = <<>> THEN <<>>
    ELSE BAdd(BMulSmall(x, y[1]), BShiftLimbs(BMul(x, Tail(y)), 1))

\* x * 2^k
BShl(x, k) == BShiftLimbs(BMulSmall(x, Pow(2, k % LimbBits)), k \div LimbBits)

RECURSIVE BDivSmallC(_, _, _, _)
BDivSmallC(x, k, i, r) ==
    IF i = 0 THEN <<>>
    ELSE LET n == r * Limb + x[i]
         IN  BDivSmallC(x, k, i - 1, n % k) \o <<n \div k>>

\* x \div 2^k
BShr(x, k) ==
    LET y == Slice(x, k \div LimbBits, Len(x))
    IN  BNorm(BDivSmallC(y, Pow(2, k % LimbBits), Len(y), 0))

RECURSIVE IntBitLen(_)
IntBitLen(n) == IF n = 0 THEN 0 ELSE 1 + IntBitLen(n \div 2)

BBitLen(x) == IF x = <<>> THEN 0 ELSE LimbBits * (Len(x) - 1) + IntBitLen(Last(x))

\* bit i of x (bit 0 the lowest)
BBit(x, i) == (BLimb(x, i \div LimbBits + 1) \div Pow(2, i % LimbBits)) % 2

\* whether x has a set bit below bit k
BLowNonzero(x, k) == x # BShl(BShr(x, k), k)

RECURSIVE BDivCorrect(_, _, _)
\* The largest q' <= q with d * q' <= r.
BDivCorrect(r, d, q) ==
    IF BCmp(BMulSmall(d, q), r) > 0 THEN BDivCorrect(r, d, q - 1) ELSE q

\* <<r \div d, r % d>> for r < d * Limb: the digit is estimated from the leading
\* bits of r and d (never too small) and corrected downwards.
BDivDigit(r, d) ==
    LET s  == IF BBitLen(d) > LimbBits THEN BBitLen(d) - LimbBits ELSE 0
        q0 == BToInt(BShr(r, s)) \div BToInt(BShr(d, s))
        q  == BDivCorrect(r, d, IF q0 >= Limb THEN Limb - 1 ELSE q0)
    IN  <<q, BSub(r, BMulSmall(d, q))>>

RECURSIVE BDivLimbs(_, _, _, _)
\* Long division of n by d, one limb of n at a time from limb j down to limb 1:
\* qr[1] the quotient and qr[2] the remainder so far.
BDivLimbs(n, d, j, qr) ==
    IF j = 0 THEN <<BNorm(qr[1]), qr[2]>>
    ELSE LET dg == BDivDigit(BNorm(<<n[j]>> \o qr[2]), d)
             s  == <<<<dg[1]>> \o qr[1], dg[2]>>
         IN  \* the test makes TLC finish this limb before it descends
             IF Len(s[1]) > 0 THEN BDivLimbs(n, d, j - 1, s) ELSE s

\* <<n \div d, n % d>>, d # 0
BDivMod(n, d) == BDivLimbs(n, d, Len(n), <<<<>>, <<>>>>)

FZero == [sign |-> 1, man |-> <<>>, exp |-> 0]

\* The float nearest to sign * (n + f) * 2^e, where 0 <= f < 1 and f > 0 iff sticky
\* (sticky only with n of more than MantBits + 1 bits).
FRound(sign, n, e, sticky) ==
    LET L == BBitLen(n)
    IN  IF n = <<>> THEN FZero
        ELSE IF L <= MantBits
        THEN [sign |-> sign, man |-> BShl(n, MantBits - L), exp |-> e - (MantBits - L)]
        ELSE LET sh  == L - MantBits
                 q   == BShr(n, sh)
                 rnd == BBit(n, sh - 1) = 1
                 low == sticky \/ BLowNonzero(n, sh - 1)
                 odd == BBit(q, 0) = 1
                 q2  == IF rnd /\ (low \/ odd) THEN BAdd(q, <<1>>) ELSE q
             IN  IF BBitLen(q2) > MantBits
                 THEN [sign |-> sign, man |-> BShr(q2, 1), exp |-> e + sh + 1]
                 ELSE [sign |-> sign, man |-> q2, exp |-> e + sh]

\* float(n) for an integer n
FFromInt(n) == FRound(IF n < 0 THEN -1 ELSE 1, BFromInt(IF n < 0 THEN -n ELSE n), 0, FALSE)

\* x * y
FMul(x, y) == FRound(x.sign * y.sign, BMul(x.man, y.man), x.exp + y.exp, FALSE)

\* x / y, y # 0
FDiv(x, y) ==
    LET k  == MantBits + 3
        qr == BDivMod(BShl(x.man, k), y.man)
    IN  FRound(x.sign * y.sign, qr[1], x.exp - y.exp - k, qr[2] # <<>>)

\* The integer part of x (a C cast of a double to an integer type truncates).
FTrunc(x) ==
    IF x.man = <<>> THEN 0
    ELSE IF x.exp >= 0 THEN x.sign * BToInt(BShl(x.man, x.exp))
    ELSE IF -x.exp > MantBits THEN 0
    ELSE x.sign * BToInt(BShr(x.man, -x.exp))

\* The float a decimal literal m * 10^-k denotes (correctly rounded), as 1e-7 is 1 / 10^7.
FDecimal(m, k) == FDiv(FFromInt(m), FFromInt(Pow(10, k)))

(***************************************************************************)
(* The field registry                                                      *)
(***************************************************************************)
\* class TrackerMessageFields(Enum): the members in definition order, which is the
\* order `for field in TrackerMessageFields` visits them in.
TrackerMessageFields == <<
    [name |-> "STX", value |-> 2],
    [name |-> "ETX", value |-> 3],
    [name |-> "SWVER", value |-> 4],
    [name |-> "SOURCE", value |-> 8],
    [name |-> "BATTV", value |-> 9],
    [name |-> "PRESS", value |-> 10],
    [name |-> "TEMP", value |-> 11],
    [name |-> "HUMID", value |-> 12],
    [name |-> "YEAR", value |-> 13],
    [name |-> "MONTH", value |-> 14],
    [name |-> "DAY", value |-> 15],
    [name |-> "HOUR", value |-> 16],
    [name |-> "MIN", value |-> 17],
    [name |-> "SEC", value |-> 18],
    [name |-> "MILLIS", value |-> 19],
    [name |-> "DATETIME", value |-> 20],
    [name |-> "LAT", value |-> 21],
    [name |-> "LON", value |-> 22],
    [name |-> "ALT", value |-> 23],
    [name |-> "SPEED", value |-> 24],
    [name |-> "HEAD", value |-> 25],
    [name |-> "SATS", value |-> 26],
    [name |-> "PDOP", value |-> 27],
    [name |-> "FIX", value |-> 28],
    [name |-> "GEOFSTAT", value |-> 29],
    [name |-> "USERVAL1", value |-> 32],
    [name |-> "USERVAL2", value |-> 33],
    [name |-> "USERVAL3", value |-> 34],
    [name |-> "USERVAL4", value |-> 35],
    [name |-> "USERVAL5", value |-> 36],
    [name |-> "USERVAL6", value |-> 37],
    [name |-> "USERVAL7", value |-> 38],
    [name |-> "USERVAL8", value |-> 39],
    [name |-> "MOFIELDS", value |-> 48],
    [name |-> "FLAGS1", value |-> 49],
    [name |-> "FLAGS2", value |-> 50],
    [name |-> "DEST", value |-> 51],
    [name |-> "HIPRESS", value |-> 52],
    [name |-> "LOPRESS", value |-> 53],
    [name |-> "HITEMP", value |-> 54],
    [name |-> "LOTEMP", value |-> 55],
    [name |-> "HIHUMID", value |-> 56],
    [name |-> "LOHUMID", value |-> 57],
    [name |-> "GEOFNUM", value |-> 58],
    [name |-> "GEOF1LAT", value |-> 59],
    [name |-> "GEOF1LON", value |-> 60],
    [name |-> "GEOF1RAD", value |-> 61],
    [name |-> "GEOF2LAT", value |-> 62],
    [name |-> "GEOF2LON", value |-> 63],
    [name |-> "GEOF2RAD", value |-> 64],
    [name |-> "GEOF3LAT", value |-> 65],
    [name |-> "GEOF3LON", value |-> 66],
    [name |-> "GEOF3RAD", value |-> 67],
    [name |-> "GEOF4LAT", value |-> 68],
    [name |-> "GEOF4LON", value |-> 69],
    [name |-> "GEOF4RAD", value |-> 70],
    [name |-> "WAKEINT", value |-> 71],
    [name |-> "ALARMINT", value |-> 72],
    [name |-> "TXINT", value |-> 73],
    [name |-> "LOWBATT", value |-> 74],
    [name |-> "DYNMODEL", value |-> 75],
    [name |-> "RBHEAD", value |-> 82],
    [name |-> "USERFUNC1", value |-> 88],
    [name |-> "USERFUNC2", value |-> 89],
    [name |-> "USERFUNC3", value |-> 90],
    [name |-> "USERFUNC4", value |-> 91],
    [name |-> "USERFUNC5", value |-> 92],
    [name |-> "USERFUNC6", value |-> 93],
    [name |-> "USERFUNC7", value |-> 94],
    [name |-> "USERFUNC8", value |-> 95] >>

STX == 2

ETX == 3

FieldNames == {TrackerMessageFields[i].name : i \in DOMAIN TrackerMessageFields}

FieldValues == {TrackerMessageFields[i].value : i \in DOMAIN TrackerMessageFields}

\* TrackerMessageFields(value): the member with that value (defined for a value in FieldValues;
\* for any other value the constructor raises ValueError).
FieldOfValue(b) ==
    TrackerMessageFields[CHOOSE i \in DOMAIN TrackerMessageFields : TrackerMessageFields[i].value = b]

\* The three shapes of a FIELD_TYPE entry: a length in bytes (int), the dtype of a
\* scalar (np.dtype), or the dtype and length of an array (tuple).
TInt(n) == [kind |-> "int", dtype |-> "", n |-> n]

TDtype(d) == [kind |-> "dtype", dtype |-> d, n |-> 1]

TTuple(d, n) == [kind |-> "tuple", dtype |-> d, n |-> n]

FIELD_TYPE == [
    STX |-> TInt(0),
    ETX |-> TInt(0),
    SWVER |-> TDtype("uint8"),
    SOURCE |-> TDtype("uint32"),
    BATTV |-> TDtype("uint16"),
    PRESS |-> TDtype("uint16"),
    TEMP |-> TDtype("int16"),
    HUMID |-> TDtype("uint16"),
    YEAR |-> TDtype("uint16"),
    MONTH |-> TDtype("uint8"),
    DAY |-> TDtype("uint8"),
    HOUR |-> TDtype("uint8"),
    MIN |-> TDtype("uint8"),
    SEC |-> TDtype("uint8"),
    MILLIS |-> TDtype("uint16"),
    DATETIME |-> TInt(7),
    LAT |-> TDtype("int32"),
    LON |-> TDtype("int32"),
    ALT |-> TDtype("int32"),
    SPEED |-> TDtype("int32"),
    HEAD |-> TDtype("int32"),
    SATS |-> TDtype("uint8"),
    PDOP |-> TDtype("uint16"),
    FIX |-> TDtype("uint8"),
    GEOFSTAT |-> TTuple("uint8", 3),
    USERVAL1 |-> TDtype("uint8"),
    USERVAL2 |-> TDtype("uint8"),
    USERVAL3 |-> TDtype("uint16"),
    USERVAL4 |-> TDtype("uint16"),
    USERVAL5 |-> TDtype("uint32"),
    USERVAL6 |-> TDtype("uint32"),
    USERVAL7 |-> TDtype("float32"),
    USERVAL8 |-> TDtype("float32"),
    MOFIELDS |-> TTuple("uint32", 3),
    FLAGS1 |-> TDtype("uint8"),
    FLAGS2 |-> TDtype("uint8"),
    DEST |-> TDtype("uint32"),
    HIPRESS |-> TDtype("uint16"),
    LOPRESS |-> TDtype("uint16"),
    HITEMP |-> TDtype("int16"),
    LOTEMP |-> TDtype("int16"),
    HIHUMID |-> TDtype("uint16"),
    LOHUMID |-> TDtype("uint16"),
    GEOFNUM |-> TDtype("uint8"),
    GEOF1LAT |-> TDtype("int32"),
    GEOF1LON |-> TDtype("int32"),
    GEOF1RAD |-> TDtype("uint32"),
    GEOF2LAT |-> TDtype("int32"),
    GEOF2LON |-> TDtype("int32"),
    GEOF2RAD |-> TDtype("uint32"),
    GEOF3LAT |-> TDtype("int32"),
    GEOF3LON |-> TDtype("int32"),
    GEOF3RAD |-> TDtype("uint32"),
    GEOF4LAT |-> TDtype("int32"),
    GEOF4LON |-> TDtype("int32"),
    GEOF4RAD |-> TDtype("uint32"),
    WAKEINT |-> TDtype("uint32"),
    ALARMINT |-> TDtype("uint16"),
    TXINT |-> TDtype("uint16"),
    LOWBATT |-> TDtype("uint16"),
    DYNMODEL |-> TDtype("uint8"),
    RBHEAD |-> TInt(4),
    USERFUNC1 |-> TInt(0),
    USERFUNC2 |-> TInt(0),
    USERFUNC3 |-> TInt(0),
    USERFUNC4 |-> TInt(0),
    USERFUNC5 |-> TDtype("uint16"),
    USERFUNC6 |-> TDtype("uint16"),
    USERFUNC7 |-> TDtype("uint32"),
    USERFUNC8 |-> TDtype("uint32") ]

\* The literals 1e-2, 1e-3 and 1e-7 as floats: FDecimal(1, 2), FDecimal(1, 3) and
\* FDecimal(1, 7), written out.
Factor1em2 == [sign |-> 1, man |-> <<5243, 3932, 27525, 163>>, exp |-> -59]

Factor1em3 == [sign |-> 1, man |-> <<10748, 9699, 2359, 131>>, exp |-> -62]

Factor1em7 == [sign |-> 1, man |-> <<12104, 13689, 24522, 214>>, exp |-> -76]

CONVERSION_FACTOR == [
    BATTV |-> Factor1em2,
    TEMP |-> Factor1em2,
    HUMID |-> Factor1em2,
    LAT |-> Factor1em7,
    LON |-> Factor1em7,
    ALT |-> Factor1em3,
    HEAD |-> Factor1em7,
    PDOP |-> Factor1em2,
    HITEMP |-> Factor1em2,
    LOTEMP |-> Factor1em2,
    HIHUMID |-> Factor1em2,
    LOHUMID |-> Factor1em2,
    GEOF1LAT |-> Factor1em7,
    GEOF1LON |-> Factor1em7,
    GEOF1RAD |-> Factor1em2,
    GEOF2LAT |-> Factor1em7,
    GEOF2LON |-> Factor1em7,
    GEOF2RAD |-> Factor1em2,
    GEOF3LAT |-> Factor1em7,
    GEOF3LON |-> Factor1em7,
    GEOF3RAD |-> Factor1em2,
    GEOF4LAT |-> Factor1em7,
    GEOF4LON |-> Factor1em7,
    GEOF4RAD |-> Factor1em2,
    LOWBATT |-> Factor1em2 ]

\* np.dtype(...).itemsize
itemsize(d) ==
    CASE d \in {"uint8"} -> 1
      [] d \in {"uint16", "int16"} -> 2
      [] d \in {"uint32", "int32", "float32"} -> 4

(***************************************************************************)
(* checksum                                                                *)
(***************************************************************************)
\* np.uint8 arithmetic: sums wrap modulo 256 (np.seterr(over='ignore')).
Uint8(n) == n % 256

\* checksum(data) after cs_a = np.uint8(0); cs_b = np.uint8(0)
ChecksumInit(d) == [data |-> d, ind |-> 0, cs_a |-> 0, cs_b |-> 0, pc |-> "loop"]

\* The loop body without the wrap of np.uint8: what C5 must tell from the code.
ChecksumStepNoWrap(st) ==
    IF st.ind < Len(st.data)
    THEN [st EXCEPT !.ind = @ + 1,
                    !.cs_a = @ + At(st.data, st.ind),
                    !.cs_b = @ + st.cs_a + At(st.data, st.ind)]
    ELSE [st EXCEPT !.pc = "return"]

\* One pass of `for ind in range(len(data))` (cs_a += np.uint8(data[ind]);
\* cs_b += cs_a), or the loop's end and the return.
ChecksumStep(st) ==
    IF st.ind < Len(st.data)
    THEN LET a == Uint8(st.cs_a + Uint8(At(st.data, st.ind)))
         IN  [st EXCEPT !.ind = @ + 1, !.cs_a = a, !.cs_b = Uint8(@ + a)]
    ELSE [st EXCEPT !.pc = "return"]

RECURSIVE ChecksumRun(_)
ChecksumRun(st) == IF st.pc = "return" THEN st ELSE ChecksumRun(ChecksumStep(st))

\* checksum(data): the pair (cs_a, cs_b) it returns
checksum(d) == LET st == ChecksumRun(ChecksumInit(d)) IN <<st.cs_a, st.cs_b>>

(***************************************************************************)
(* Values of a translated message, exceptions, dicts                       *)
(***************************************************************************)
\* A value of the data dictionary: None, an integer (a numpy integer scalar or an
\* int), a float, a np.float32 (its four bytes), a bytes object, a numpy array of
\* integers, or a datetime <<year, month, day, hour, minute, second, microsecond>>.
None == [t |-> "None", v |-> 0]

IntVal(n) == [t |-> "int", v |-> n]

FloatVal(f) == [t |-> "float", v |-> f]

Float32Val(bs) == [t |-> "float32", v |-> bs]

BytesVal(bs) == [t |-> "bytes", v |-> bs]

ArrayVal(xs) == [t |-> "ndarray", v |-> xs]

DatetimeVal(c) == [t |-> "datetime", v |-> c]

NoExc == [type |-> "None", msg |-> ""]

Exc(type, msg) == [type |-> type, msg |-> msg]

\* key in d
DictHas(d, k) == \E i \in DOMAIN d : d[i][1] = k

\* d[key]
DictGet(d, k) == d[CHOOSE i \in DOMAIN d : d[i][1] = k][2]

\* d[key] = value: a new key goes to the end, a known key keeps its place
DictSet(d, k, v) ==
    IF DictHas(d, k)
    THEN [i \in DOMAIN d |-> IF d[i][1] = k THEN <<k, v>> ELSE d[i]]
    ELSE Append(d, <<k, v>>)

DictKeys(d) == {d[i][1] : i \in DOMAIN d}

(***************************************************************************)
(* Reading typed values from bytes (np.frombuffer, struct.unpack, datetime)*)
(***************************************************************************)
RECURSIVE LEValue(_)
\* The unsigned little-endian number a bytes object holds.
LEValue(bs) == IF bs = <<>> THEN 0 ELSE bs[1] + 256 * LEValue(Tail(bs))

\* One element of dtype d from its itemsize bytes (little-endian; int16 and int32
\* are two's complement; a float32 is kept as its bytes).
ElementOf(bs, d) ==
    IF d = "float32" THEN bs
    ELSE LET top == Last(bs)
             hi  == IF d \in {"int16", "int32"} /\ top >= 128 THEN top - 256 ELSE top
         IN  LEValue(Front(bs)) + Pow(256, Len(bs) - 1) * hi

\* np.frombuffer(buf, dtype=d) for len(buf) a multiple of the itemsize: the elements
frombuffer(buf, d) ==
    [i \in 1..(Len(buf) \div itemsize(d)) |->
        ElementOf(SubSeq(buf, itemsize(d) * (i - 1) + 1, itemsize(d) * i), d)]

\* struct.calcsize('HBBBBB'): an unsigned short and five unsigned chars
StructSize == 2 + 5

\* struct.unpack('HBBBBB', buf) for len(buf) = StructSize
unpack(buf) == <<LEValue(SubSeq(buf, 1, 2)), buf[3], buf[4], buf[5], buf[6], buf[7]>>

IsLeap(y) == y % 4 = 0 /\ (y % 100 # 0 \/ y % 400 = 0)

DaysInMonth(y, m) ==
    IF m = 2 THEN (IF IsLeap(y) THEN 29 ELSE 28)
    ELSE IF m \in {4, 6, 9, 11} THEN 30 ELSE 31

\* Whether datetime.datetime(year, month, day, hour, minute, second) accepts the
\* values (it raises ValueError otherwise).
ValidDatetime(c) ==
    /\ c[1] >= 1 /\ c[1] <= 9999
    /\ c[2] >= 1 /\ c[2] <= 12
    /\ c[3] >= 1 /\ c[3] <= DaysInMonth(c[1], c[2])
    /\ c[4] <= 23 /\ c[5] <= 59 /\ c[6] <= 59

(***************************************************************************)
(* decode_message                                                          *)
(***************************************************************************)
\* The locals of decode_message: pc is "loop" (at the while test), "etx" (the loop
\* has ended), "return" or "raise"; after "raise", exc is the exception and ind and
\* data are as the exception left them.
Raise(st, ind, e) == [st EXCEPT !.pc = "raise", !.ind = ind, !.exc = e]

IndexErrorBytes == Exc("IndexError", "index out of range")

\* Lines 248-254: find the start marker at offset 0 or 5.
DecodeBegin(msg) ==
    LET st0 == [pc |-> "loop", ind |-> 0, data |-> <<>>, exc |-> NoExc]
    IN  IF Len(msg) = 0 THEN Raise(st0, 0, IndexErrorBytes)
        ELSE LET ind == IF At(msg, 0) = STX THEN 0 ELSE 5
             IN  IF ind >= Len(msg) THEN Raise(st0, ind, IndexErrorBytes)
                 ELSE IF At(msg, ind) # STX
                 THEN Raise(st0, ind, Exc("AssertionError", "STX marker not found."))
                 ELSE [st0 EXCEPT !.ind = ind + 1]

\* Lines 275-276: float(data[field.name]) * CONVERSION_FACTOR[field]
Convert(name, value) ==
    IF name \in DOMAIN CONVERSION_FACTOR
    THEN FloatVal(FMul(FFromInt(value.v), CONVERSION_FACTOR[name]))
    ELSE value

\* Lines 275-277 after data[field.name] has been set: convert, then ind += field_len.
DecodeStore(st, ind, name, value, field_len) ==
    [st EXCEPT !.ind = ind + field_len,
               !.data = DictSet(st.data, name, Convert(name, value))]

\* Lines 258-266: a field whose FIELD_TYPE is a length in bytes.
DecodeBytesField(msg, st, ind, name) ==
    LET field_len == FIELD_TYPE[name].n
        buf       == Slice(msg, ind, ind + field_len)
    IN  IF name = "DATETIME"
        THEN IF Len(buf) # StructSize
             THEN Raise(st, ind, Exc("struct.error", "unpack requires a buffer of 7 bytes"))
             ELSE IF ~ValidDatetime(unpack(buf))
             THEN Raise(st, ind, Exc("ValueError", "datetime component out of range"))
             ELSE DecodeStore(st, ind, name, DatetimeVal(unpack(buf) \o <<0>>), field_len)
        ELSE IF field_len > 0
        THEN DecodeStore(st, ind, name, BytesVal(buf), field_len)
        ELSE DecodeStore(st, ind, name, None, field_len)

\* Lines 267-269: a scalar, np.frombuffer(...)[0].
DecodeScalarField(msg, st, ind, name) ==
    LET d         == FIELD_TYPE[name].dtype
        field_len == itemsize(d)
        buf       == Slice(msg, ind, ind + field_len)
    IN  IF Len(buf) % itemsize(d) # 0
        THEN Raise(st, ind, Exc("ValueError", "buffer size must be a multiple of element size"))
        ELSE IF Len(buf) = 0
        THEN Raise(st, ind, Exc("IndexError", "index 0 is out of bounds for axis 0 with size 0"))
        ELSE DecodeStore(st, ind, name,
                         IF d = "float32" THEN Float32Val(frombuffer(buf, d)[1])
                                          ELSE IntVal(frombuffer(buf, d)[1]),
                         field_len)

\* Lines 270-272: an array, np.frombuffer(...).
DecodeArrayField(msg, st, ind, name) ==
    LET d         == FIELD_TYPE[name].dtype
        field_len == itemsize(d) * FIELD_TYPE[name].n
        buf       == Slice(msg, ind, ind + field_len)
    IN  IF Len(buf) % itemsize(d) # 0
        THEN Raise(st, ind, Exc("ValueError", "buffer size must be a multiple of element size"))
        ELSE DecodeStore(st, ind, name, ArrayVal(frombuffer(buf, d)), field_len)

\* Lines 255-277: the while test and, unless the byte is ETX, one pass of the body.
DecodeField(msg, st) ==
    IF st.ind >= Len(msg) THEN Raise(st, st.ind, IndexErrorBytes)
    ELSE IF At(msg, st.ind) = ETX THEN [st EXCEPT !.pc = "etx"]
    ELSE IF At(msg, st.ind) \notin FieldValues
    THEN Raise(st, st.ind, Exc("ValueError", "is not a valid TrackerMessageFields"))
    ELSE LET name == FieldOfValue(At(msg, st.ind)).name
             ind  == st.ind + 1
         IN  CASE FIELD_TYPE[name].kind = "int"   -> DecodeBytesField(msg, st, ind, name)
               [] FIELD_TYPE[name].kind = "dtype" -> DecodeScalarField(msg, st, ind, name)
               [] FIELD_TYPE[name].kind = "tuple" -> DecodeArrayField(msg, st, ind, name)

\* Lines 278-282 with the checksum taken before `ind += 1`, so without the end
\* marker: what C6 must tell from the code.
DecodeEndBeforeEtx(msg, st) ==
    LET ind == st.ind + 1
        cs  == checksum(Slice(msg, 0, st.ind))
    IN  IF ind >= Len(msg) THEN Raise(st, ind, IndexErrorBytes)
        ELSE IF At(msg, ind) # cs[1]
        THEN Raise(st, ind, Exc("AssertionError", "Checksum mismatch."))
        ELSE IF ind + 1 >= Len(msg) THEN Raise(st, ind, IndexErrorBytes)
        ELSE IF At(msg, ind + 1) # cs[2]
        THEN Raise(st, ind, Exc("AssertionError", "Checksum mismatch."))
        ELSE [st EXCEPT !.pc = "return", !.ind = ind]

\* Lines 278-282: step over ETX, checksum(message[:ind]), compare the two bytes.
DecodeEnd(msg, st) ==
    LET ind == st.ind + 1
        cs  == checksum(Slice(msg, 0, ind))
    IN  IF ind >= Len(msg) THEN Raise(st, ind, IndexErrorBytes)
        ELSE IF At(msg, ind) # cs[1]
        THEN Raise(st, ind, Exc("AssertionError", "Checksum mismatch."))
        ELSE IF ind + 1 >= Len(msg) THEN Raise(st, ind, IndexErrorBytes)
        ELSE IF At(msg, ind + 1) # cs[2]
        THEN Raise(st, ind, Exc("AssertionError", "Checksum mismatch."))
        ELSE [st EXCEPT !.pc = "return", !.ind = ind]

DecodeStep(msg, st) == IF st.pc = "loop" THEN DecodeField(msg, st) ELSE DecodeEnd(msg, st)

RECURSIVE DecodeRun(_, _)
DecodeRun(msg, st) ==
    IF st.pc \in {"return", "raise"} THEN st ELSE DecodeRun(msg, DecodeStep(msg, st))

\* decode_message(message): its locals when it returns (pc = "return", data the
\* translated message) or raises (pc = "raise")
decode_message(msg) == DecodeRun(msg, DecodeBegin(msg))

(***************************************************************************)
(* encode_message                                                          *)
(***************************************************************************)
\* The numpy builds the program runs on differ in two casts it uses:
\*   subarray: arr.astype((dtype, n)), a cast to a subarray dtype, gives an array of
\*             shape (len(arr), n), filled either by broadcasting arr along the last
\*             axis ("broadcast", numpy < 1.20 and its deprecation period) or by
\*             repeating each element n times ("elementwise");
\*   uint8:    np.uint8(i) for i < 0 either wraps ("wrap") or raises OverflowError
\*             ("raise", numpy >= 2).
NumpyBuilds == [subarray : {"broadcast", "elementwise"}, uint8 : {"wrap", "raise"}]

\* n as size bytes, little-endian (two's complement for n < 0, wrapped to the width,
\* as astype casts between integer types).
ToBytes(n, size) == [i \in 1..size |-> (n \div Pow(256, i - 1)) % 256]

\* The timestamp packed without its second, in 6 bytes: what C11 must tell from the
\* code.
packWithoutSecond(c) == ToBytes(c[1], 2) \o <<c[2], c[3], c[4], c[5]>>

\* struct.pack('HBBBBB', year, month, day, hour, minute, second)
pack(c) == ToBytes(c[1], 2) \o <<c[2], c[3], c[4], c[5], c[6]>>

\* An outcome of a step of encode_message: the bytes to append, or an exception.
Emit(bs) == [exc |-> NoExc, bytes |-> bs]

Fail(e) == [exc |-> e, bytes |-> <<>>]

\* Lines 305-310: a scalar.  np.array([value]) is an int64 array for an integer and
\* a float64 array for a float; the in-place division by the conversion factor is
\* not defined on an integer array; astype truncates a float towards zero.
EncodeScalar(name, value) ==
    LET d      == FIELD_TYPE[name].dtype
        scaled == name \in DOMAIN CONVERSION_FACTOR
    IN  CASE value.t = "int" /\ scaled ->
               Fail(Exc("TypeError", "Cannot cast ufunc 'divide' output from dtype('float64') to dtype('int64')"))
          [] value.t = "int" /\ ~scaled /\ d # "float32" ->
               Emit(ToBytes(value.v, itemsize(d)))
          [] value.t = "float" /\ scaled /\ d # "float32" ->
               Emit(ToBytes(FTrunc(FDiv(value.v, CONVERSION_FACTOR[name])), itemsize(d)))
          [] value.t = "float" /\ ~scaled /\ d # "float32" ->
               Emit(ToBytes(FTrunc(value.v), itemsize(d)))
          [] value.t = "float32" /\ ~scaled /\ d = "float32" ->
               Emit(value.v)

\* arr.astype((dtype, n)).tobytes() for an array of n integers: n * n elements.
SubarrayCast(xs, n, build) ==
    IF build.subarray = "broadcast"
    THEN [k \in 1..(n * n) |-> xs[((k - 1) % n) + 1]]
    ELSE [k \in 1..(n * n) |-> xs[((k - 1) \div n) + 1]]

\* Lines 311-317: an array (a list or a numpy array of integers; no array field
\* has a conversion factor).
EncodeArray(name, value, build) ==
    LET d == FIELD_TYPE[name].dtype
        n == FIELD_TYPE[name].n
    IN  IF Len(value.v) # n THEN Fail(Exc("AssertionError", ""))
        ELSE Emit(Concat([k \in 1..(n * n) |->
                            ToBytes(SubarrayCast(value.v, n, build)[k], itemsize(d))]))

\* Lines 298-319: the payload of one field that is present in data.
EncodePayload(name, value, build) ==
    IF name = "DATETIME" THEN
        IF value.t = "datetime" THEN Emit(pack(value.v))
        ELSE Fail(Exc("AttributeError", "object has no attribute 'year'"))
    ELSE CASE FIELD_TYPE[name].kind = "dtype" -> EncodeScalar(name, value)
           [] FIELD_TYPE[name].kind = "tuple" -> EncodeArray(name, value, build)
           [] FIELD_TYPE[name].kind = "int"   -> Emit([k \in 1..FIELD_TYPE[name].n |-> 0])

RECURSIVE EncodeLoopInsertionOrder(_, _, _, _)
\* The loop over the entries of data in the order they were inserted, instead of
\* over the registry: what C7 must tell from the code.
EncodeLoopInsertionOrder(d, i, msg, build) ==
    IF i > Len(d) THEN [exc |-> NoExc, bytes |-> msg]
    ELSE LET value == TrackerMessageFields[CHOOSE j \in DOMAIN TrackerMessageFields :
                                              TrackerMessageFields[j].name = d[i][1]].value
             p     == EncodePayload(d[i][1], d[i][2], build)
         IN  IF p.exc # NoExc THEN p
             ELSE EncodeLoopInsertionOrder(d, i + 1, msg \o <<value>> \o p.bytes, build)

RECURSIVE EncodeLoop(_, _, _, _)
\* Lines 296-319: `for field in TrackerMessageFields`, from member i on, msg so far.
EncodeLoop(d, i, msg, build) ==
    IF i > Len(TrackerMessageFields) THEN [exc |-> NoExc, bytes |-> msg]
    ELSE LET field == TrackerMessageFields[i]
         IN  IF ~DictHas(d, field.name) THEN EncodeLoop(d, i + 1, msg, build)
             ELSE The({ IF p.exc # NoExc THEN p
                        ELSE EncodeLoop(d, i + 1, msg \o <<field.value>> \o p.bytes, build)
                        : p \in {EncodePayload(field.name, DictGet(d, field.name), build)} })

\* encode_message(data): the message it returns (bytes) or the exception it raises
encode_message(d, build) ==
    The({ IF body.exc # NoExc THEN body
          ELSE LET msg == body.bytes \o <<ETX>>
               IN  The({Emit(msg \o <<cs[1], cs[2]>>) : cs \in {checksum(msg)}})
          : body \in {EncodeLoop(d, 1, <<STX>>, build)} })

(***************************************************************************)
(* asc2bin, bin2asc                                                        *)
(***************************************************************************)
\* A character is its code point (ord): "0" is 48, "a" 97, "A" 65.
\* The digits of '{:x}': 0-9 and a-f.
HexDigits == <<48, 49, 50, 51, 52, 53, 54, 55, 56, 57, 97, 98, 99, 100, 101, 102>>

\* 0-9 and A-F.
UpperHexDigits == <<48, 49, 50, 51, 52, 53, 54, 55, 56, 57, 65, 66, 67, 68, 69, 70>>

\* The digit zero of each script other than ASCII whose ten decimal digits int()
\* takes as 0..9 (Unicode 14.0, the database of Python 3.11): ARABIC-INDIC (U+0660),
\* DEVANAGARI (U+0966), FULLWIDTH (U+FF10) and the others.
DecimalZeros == {
    1632, 1776, 1984, 2406, 2534, 2662, 2790, 2918,
    3046, 3174, 3302, 3430, 3558, 3664, 3792, 3872,
    4160, 4240, 6112, 6160, 6470, 6608, 6784, 6800,
    6992, 7088, 7232, 7248, 42528, 43216, 43264, 43472,
    43504, 43600, 44016, 65296, 66720, 68912, 69734, 69872,
    69942, 70096, 70384, 70736, 70864, 71248, 71360, 71472,
    71904, 72016, 72784, 73040, 73120, 92768, 92864, 93008,
    120782, 120792, 120802, 120812, 120822, 123200, 123632, 125264,
    130032 }

\* c is a decimal digit of a script other than ASCII.
IsDecimal(c) == \E z \in DecimalZeros : c >= z /\ c <= z + 9

IsAsciiHexDigit(c) == \E i \in 1..16 : HexDigits[i] = c \/ UpperHexDigits[i] = c

\* int(., 16) takes c as a digit.
IsHexDigit(c) == IsAsciiHexDigit(c) \/ IsDecimal(c)

DigitValue(c) ==
    IF IsAsciiHexDigit(c)
    THEN (CHOOSE i \in 1..16 : HexDigits[i] = c \/ UpperHexDigits[i] = c) - 1
    ELSE c - (CHOOSE z \in DecimalZeros : c >= z /\ c <= z + 9)

\* The whitespace int() strips: \t \n \v \f \r, the blank, U+0085, U+00A0, U+1680,
\* U+2000..U+200A, U+2028, U+2029, U+202F, U+205F, U+3000.
IsSpace(c) ==
    \/ c \in {9, 10, 11, 12, 13, 32, 133, 160, 5760, 8232, 8233, 8239, 8287, 12288}
    \/ (c >= 8192 /\ c <= 8202)

RECURSIVE StripLeft(_)
StripLeft(s) == IF s # <<>> /\ IsSpace(s[1]) THEN StripLeft(Tail(s)) ELSE s

RECURSIVE StripRight(_)
StripRight(s) == IF s # <<>> /\ IsSpace(Last(s)) THEN StripRight(Front(s)) ELSE s

\* The digits of a literal, after sign and prefix: hex digits, with single
\* underscores between them (and after the prefix).
IsDigits(t, prefixed) ==
    /\ t # <<>> /\ IsHexDigit(Last(t))
    /\ \A i \in DOMAIN t :
          \/ IsHexDigit(t[i])
          \/ t[i] = 95 /\ i < Len(t) /\ IsHexDigit(t[i + 1]) /\ (i > 1 \/ prefixed)

RECURSIVE DigitsValue(_, _)
\* The value of the digits of t, after acc.
DigitsValue(t, acc) ==
    IF t = <<>> THEN acc
    ELSE IF t[1] = 95 THEN DigitsValue(Tail(t), acc)
    ELSE DigitsValue(Tail(t), 16 * acc + DigitValue(t[1]))

\* int(s, 16) for a str s: <<TRUE, value>>, or <<FALSE, 0>> for ValueError.  int()
\* strips the whitespace around the literal and takes a sign and the prefix 0x
\* (its zero of any script).
IntBase16(s) ==
    LET t2 == StripRight(StripLeft(s))
        sg == IF t2 # <<>> /\ t2[1] \in {43, 45} THEN t2[1] ELSE 0
        t3 == IF sg # 0 THEN Tail(t2) ELSE t2
        px == Len(t3) >= 2 /\ t3[1] \in ({48} \cup DecimalZeros) /\ t3[2] \in {120, 88}
        t4 == IF px THEN Tail(Tail(t3)) ELSE t3
    IN  IF ~IsDigits(t4, px) THEN <<FALSE, 0>>
        ELSE <<TRUE, IF sg = 45 THEN -DigitsValue(t4, 0) ELSE DigitsValue(t4, 0)>>

RECURSIVE Asc2binLoop(_, _, _, _)
\* Lines 331-332: `for ind in np.arange(0, len(msg_asc), 2)`, from ind on, msg so far.
Asc2binLoop(msg_asc, ind, msg, build) ==
    IF ind >= Len(msg_asc) THEN [exc |-> NoExc, bytes |-> msg]
    ELSE LET v == IntBase16(Slice(msg_asc, ind, ind + 2))
         IN  IF ~v[1] THEN Fail(Exc("ValueError", "invalid literal for int() with base 16"))
             ELSE IF v[2] < 0 /\ build.uint8 = "raise"
             THEN Fail(Exc("OverflowError", "Python integer out of bounds for uint8"))
             ELSE Asc2binLoop(msg_asc, ind + 2, Append(msg, Uint8(v[2])), build)

\* asc2bin(msg_asc): the bytes it returns or the exception it raises
asc2bin(msg_asc, build) == Asc2binLoop(msg_asc, 0, <<>>, build)

\* '{:x}'.format(b), without the zero padding: what C10 must tell from the code.
Format1x(b) ==
    IF b < 16 THEN <<HexDigits[b + 1]>>
    ELSE <<HexDigits[(b \div 16) + 1], HexDigits[(b % 16) + 1]>>

\* '{:02x}'.format(b) for a byte b
Format02x(b) == <<HexDigits[(b \div 16) + 1], HexDigits[(b % 16) + 1]>>

RECURSIVE Bin2ascLoop(_, _, _)
\* Lines 340-341: `for ind in range(len(msg_bin))`, from ind on, msg_asc so far.
Bin2ascLoop(msg_bin, ind, msg_asc) ==
    IF ind >= Len(msg_bin) THEN msg_asc
    ELSE Bin2ascLoop(msg_bin, ind + 1, msg_asc \o Format02x(At(msg_bin, ind)))

\* bin2asc(msg_bin): the str it returns
bin2asc(msg_bin) == Bin2ascLoop(msg_bin, 0, <<>>)

(***************************************************************************)
(* Inputs                                                                  *)
(***************************************************************************)
MaxChecksumLen == 3

MaxFields == 2

MaxKeys == 2

MaxHexLen == 3

MaxBinLen == 3

MaxBatch == 2

\* Bytes for checksum(): small ones and ones whose sums pass 255.
ChecksumBytes == {0, 1, 2, 3, 127, 128, 255}

\* One field on the wire, identifier then payload, for each shape of the registry:
\* SWVER (uint8), BATTV (uint16, 1e-2), TEMP (int16 < 0, 1e-2), LAT (int32, 1e-7),
\* SOURCE (uint32), USERVAL7 (float32), GEOFSTAT (3 x uint8), MOFIELDS (3 x uint32),
\* RBHEAD (4 bytes), DATETIME (2021-05-07 12:30:45), USERFUNC1 (no payload).
GoodFields == {
    <<4, 17>>,
    <<9, 154, 1>>,
    <<11, 56, 255>>,
    <<21, 56, 28, 78, 22>>,
    <<8, 64, 226, 1, 0>>,
    <<38, 0, 0, 128, 63>>,
    <<29, 1, 2, 3>>,
    <<48, 1, 0, 0, 0, 2, 0, 0, 0, 3, 0, 0, 0>>,
    <<82, 82, 66, 0, 1>>,
    <<20, 229, 7, 5, 7, 12, 30, 45>>,
    <<88>> }

\* What a sender can also put where a field is expected: the byte 0x02, an
\* identifier outside the registry (0xFF), a DATETIME with month 13.
OddFields == { <<2>>, <<255>>, <<20, 229, 7, 13, 7, 12, 30, 45>> }

FieldSamples == GoodFields \cup OddFields

\* The 5-byte header a gateway puts before the frame: zeros, "RB" and a serial
\* number, and one that starts with the byte 0x02.
Headers == { <<0, 0, 0, 0, 0>>, <<82, 66, 0, 1, 2>>, <<2, 0, 0, 0, 1>> }

\* The frame of a sequence of fields: STX, the fields, ETX, and the two checksum
\* bytes over all of it.
FrameOf(chunks) ==
    LET m == <<STX>> \o Concat(chunks) \o <<ETX>>
    IN  m \o <<checksum(m)[1], checksum(m)[2]>>

\* The frame after a header, with the two checksum bytes taken over header and frame.
FrameSummedWith(header, chunks) ==
    LET m == header \o <<STX>> \o Concat(chunks) \o <<ETX>>
    IN  m \o <<checksum(m)[1], checksum(m)[2]>>

\* The buffer a test case stands for.
BufferOf(t) ==
    CASE t.kind = "frame"     -> FrameOf(t.chunks)
      [] t.kind = "header"    -> t.header \o FrameOf(t.chunks)
      [] t.kind = "cut"       -> SubSeq(FrameOf(t.chunks), 1, t.cut)
      [] t.kind = "badsum"    ->
            LET f == FrameOf(t.chunks)
            IN  [f EXCEPT ![Len(f) - t.cut] = (@ + 1) % 256]
      [] t.kind = "headersum" -> FrameSummedWith(t.header, t.chunks)
      [] t.kind = "bytes"     -> Concat(t.chunks)
      [] t.kind = "none"      -> <<>>

NoCase == [kind |-> "none", chunks |-> <<>>, header |-> <<>>, cut |-> 0]

\* Buffers given byte by byte: start marker, end marker, and 05 05 or 05 07.
GivenBuffers == { <<2, 3, 5, 5>>, <<2, 3, 5, 7>> }

\* The fields of a frame: up to MaxFields of the samples.
Bodies == SeqsUpTo(FieldSamples, MaxFields)

\* Buffers for decode_message made of the fields b: their frame; the same after a
\* header; cut after any number of bytes; with one checksum byte changed; after a
\* header and checksummed with it.
CasesOf(b) ==
           {[kind |-> "frame", chunks |-> b, header |-> <<>>, cut |-> 0]}
      \cup {[kind |-> "header", chunks |-> b, header |-> h, cut |-> 0] : h \in Headers}
      \cup {[kind |-> "cut", chunks |-> b, header |-> <<>>, cut |-> c] :
                c \in 0..(Len(Concat(b)) + 3)}
      \cup {[kind |-> "badsum", chunks |-> b, header |-> <<>>, cut |-> c] : c \in {0, 1}}
      \cup {[kind |-> "headersum", chunks |-> b, header |-> h, cut |-> 0] : h \in Headers}

\* The buffers given byte by byte.
GivenCases ==
    {[kind |-> "bytes", chunks |-> <<b>>, header |-> <<>>, cut |-> 0] : b \in GivenBuffers}

\* Entries of a data dictionary for encode_message, one for each shape: SWVER 17,
\* BATTV 4.1, LAT 37.4219, DATETIME 2021-05-07 12:30:45, GEOFSTAT [1, 2, 3],
\* RBHEAD b'RB\x00\x01', USERFUNC1 None, USERVAL7 np.float32(1.0); and GEOFSTAT
\* [1, 2], one element short.
EntrySamples == {
    <<"SWVER", IntVal(17)>>,
    <<"BATTV", FloatVal(FDecimal(41, 1))>>,
    <<"LAT", FloatVal(FDecimal(374219, 4))>>,
    <<"DATETIME", DatetimeVal(<<2021, 5, 7, 12, 30, 45, 0>>)>>,
    <<"GEOFSTAT", ArrayVal(<<1, 2, 3>>)>>,
    <<"GEOFSTAT", ArrayVal(<<1, 2>>)>>,
    <<"RBHEAD", BytesVal(<<82, 66, 0, 1>>)>>,
    <<"USERFUNC1", None>>,
    <<"USERVAL7", Float32Val(<<0, 0, 128, 63>>)>> }

\* Dictionaries of up to MaxKeys entries, in every insertion order.
EncodeInputs ==
    {d \in SeqsUpTo(EntrySamples, MaxKeys) :
        \A i, j \in DOMAIN d : i # j => d[i][1] # d[j][1]}

\* Buffers of a batch: two that decode (no field; SWVER), and one for each failure:
\* no start marker, an unknown identifier (0xFF), a scalar (BATTV) cut inside its
\* element, an array (GEOFSTAT) cut, a blob (RBHEAD) cut, a DATETIME cut, a buffer
\* that ends before the checksum, a checksum mismatch.
BatchBuffers == {
    FrameOf(<<>>),
    FrameOf(<< <<4, 17>> >>),
    <<0, 0, 0, 0, 0, 0>>,
    FrameOf(<< <<255>> >>),
    <<2, 9, 154>>,
    <<2, 29, 1>>,
    <<2, 82, 82, 66>>,
    <<2, 20, 229, 7>>,
    <<2, 3>>,
    <<2, 3, 5, 5>> }

\* Characters for asc2bin: the hex digits 0 1 9 a f A, and the letter g, a blank, a
\* carriage return, the signs + and -, and the ARABIC-INDIC DIGIT THREE (U+0663),
\* which are no hex digits.
HexChars == {48, 49, 57, 97, 102, 65, 103, 32, 13, 43, 45, 1635}

\* Bytes for bin2asc: below and above 16, so that the padding and both digits matter.
HexBytes == {0, 9, 10, 15, 16, 171, 255}

(***************************************************************************)
(* The program as a state machine                                          *)
(***************************************************************************)
CksIdle == [data |-> <<>>, ind |-> 0, cs_a |-> 0, cs_b |-> 0, pc |-> "idle"]

DecIdle == [pc |-> "idle", ind |-> 0, data |-> <<>>, exc |-> NoExc]

DecCall == [pc |-> "call", ind |-> 0, data |-> <<>>, exc |-> NoExc]

EncIdle == [pc |-> "idle", exc |-> NoExc, bytes |-> <<>>]

EncCall == [pc |-> "call", exc |-> NoExc, bytes |-> <<>>]

HexIdle == [pc |-> "idle", arg |-> <<>>, msg_asc |-> <<>>, msg_bin |-> <<>>, exc |-> NoExc]

\* get_messages / main_decode: bufs the buffers (attachments, contents of the
\* files), i how many are done, out the <<index, Message>> appended or printed,
\* errs the indices whose error was printed, exc the exception that left the function.
BatchIdle == [pc |-> "idle", bufs |-> <<>>, i |-> 0, out |-> <<>>, errs |-> <<>>, exc |-> NoExc]

\* The exceptions the except clause around decode_message names (lines 411 and 503).
Caught(caller) ==
    IF caller = "get_messages" THEN {"ValueError", "AssertionError"}
    ELSE {"ValueError", "AssertionError", "IndexError"}

\* The build for the runs that do not depend on it.
AnyBuild == [subarray |-> "elementwise", uint8 |-> "raise"]

\* checksum(data) is called.
InitChecksum ==
    /\ prog = "checksum"
    /\ cks \in {ChecksumInit(d) : d \in SeqsUpTo(ChecksumBytes, MaxChecksumLen)}
    /\ numpy = AnyBuild /\ tc = NoCase /\ message = <<>> /\ dec = DecIdle
    /\ data = <<>> /\ enc = EncIdle /\ hex = HexIdle /\ batch = BatchIdle

\* decode_message(message) is called on a buffer.
InitDecode ==
    /\ prog = "decode"
    /\ \/ \E b \in Bodies : tc \in CasesOf(b)
       \/ tc \in GivenCases
    /\ message = BufferOf(tc)
    /\ dec = DecCall
    /\ numpy = AnyBuild /\ cks = CksIdle /\ data = <<>> /\ enc = EncIdle /\ hex = HexIdle
    /\ batch = BatchIdle

\* encode_message(data) is called; what it returns goes to decode_message.
InitEncode ==
    /\ prog = "encode"
    /\ data \in EncodeInputs
    /\ numpy \in {b \in NumpyBuilds : b.uint8 = AnyBuild.uint8}
    /\ enc = EncCall
    /\ tc = NoCase /\ cks = CksIdle /\ message = <<>> /\ dec = DecIdle /\ hex = HexIdle
    /\ batch = BatchIdle

\* asc2bin(msg_asc) is called on a str, or bin2asc(msg_bin) on bytes and asc2bin on
\* what it returns.
InitHex ==
    /\ prog \in {"asc2bin", "bin2asc"}
    /\ numpy \in {b \in NumpyBuilds : b.subarray = AnyBuild.subarray}
    /\ \/ /\ prog = "asc2bin"
          /\ \E s \in SeqsUpTo(HexChars, MaxHexLen) :
                hex = [HexIdle EXCEPT !.pc = "asc2bin", !.arg = s, !.msg_asc = s]
       \/ /\ prog = "bin2asc"
          /\ \E b \in SeqsUpTo(HexBytes, MaxBinLen) :
                hex = [HexIdle EXCEPT !.pc = "bin2asc", !.arg = b, !.msg_bin = b]
    /\ tc = NoCase /\ cks = CksIdle /\ message = <<>> /\ dec = DecIdle
    /\ data = <<>> /\ enc = EncIdle /\ batch = BatchIdle

\* checksum: one pass of its loop, or its return.
ChecksumLoop ==
    /\ cks.pc = "loop"
    /\ cks' = ChecksumStep(cks)
    /\ UNCHANGED <<prog, numpy, tc, message, dec, data, enc, hex, batch>>

\* decode_message: lines 248-254.
DecodeCall ==
    /\ dec.pc = "call"
    /\ dec' = DecodeBegin(message)
    /\ UNCHANGED <<prog, numpy, tc, cks, message, data, enc, hex, batch>>

\* decode_message: the while test and one field (lines 255-277).
DecodeLoop ==
    /\ dec.pc = "loop"
    /\ dec' = DecodeField(message, dec)
    /\ UNCHANGED <<prog, numpy, tc, cks, message, data, enc, hex, batch>>

\* decode_message: the checksum test and the return (lines 278-282).
DecodeFinish ==
    /\ dec.pc = "etx"
    /\ dec' = DecodeEnd(message, dec)
    /\ UNCHANGED <<prog, numpy, tc, cks, message, data, enc, hex, batch>>

\* encode_message(data), as a whole.
EncodeCall ==
    /\ enc.pc = "call"
    /\ \E r \in {encode_message(data, numpy)} :
          enc' = [pc |-> IF r.exc = NoExc THEN "return" ELSE "raise",
                  exc |-> r.exc, bytes |-> r.bytes]
    /\ UNCHANGED <<prog, numpy, tc, cks, message, dec, data, hex, batch>>

\* The encoded message is handed to decode_message.
Feed ==
    /\ enc.pc = "return" /\ dec.pc = "idle"
    /\ message' = enc.bytes
    /\ dec' = DecCall
    /\ UNCHANGED <<prog, numpy, tc, cks, data, enc, hex, batch>>

\* bin2asc(msg_bin), as a whole; its str goes to asc2bin.
Bin2ascCall ==
    /\ hex.pc = "bin2asc"
    /\ hex' = [hex EXCEPT !.pc = "asc2bin", !.msg_asc = bin2asc(hex.msg_bin)]
    /\ UNCHANGED <<prog, numpy, tc, cks, message, dec, data, enc, batch>>

\* asc2bin(msg_asc), as a whole.
Asc2binCall ==
    /\ hex.pc = "asc2bin"
    /\ \E r \in {asc2bin(hex.msg_asc, numpy)} :
          hex' = [hex EXCEPT !.pc = IF r.exc = NoExc THEN "return" ELSE "raise",
                             !.msg_bin = r.bytes, !.exc = r.exc]
    /\ UNCHANGED <<prog, numpy, tc, cks, message, dec, data, enc, batch>>

\* get_messages(imap, ...) is called with the attachments query_mail found, or
\* main_decode(filelist) with a list of files (no imap, no output file).
InitBatch ==
    /\ prog \in {"get_messages", "main_decode"}
    /\ \E bufs \in SeqsUpTo(BatchBuffers, MaxBatch) :
          batch = [BatchIdle EXCEPT !.pc = "loop", !.bufs = bufs]
    /\ numpy = AnyBuild /\ tc = NoCase /\ cks = CksIdle /\ message = <<>> /\ dec = DecIdle
    /\ data = <<>> /\ enc = EncIdle /\ hex = HexIdle

\* `for sbd in sbd_list` / `for filename in filelist`: the next buffer goes to
\* decode_message.
BatchFetch ==
    /\ batch.pc = "loop" /\ batch.i < Len(batch.bufs)
    /\ message' = At(batch.bufs, batch.i)
    /\ dec' = DecCall
    /\ batch' = [batch EXCEPT !.pc = "try"]
    /\ UNCHANGED <<prog, numpy, tc, cks, data, enc, hex>>

\* decode_message has returned: messages.append(...) / print(filename, msg_trans).
BatchAppend ==
    /\ batch.pc = "try" /\ dec.pc = "return"
    /\ batch' = [batch EXCEPT !.pc = "loop", !.i = @ + 1,
                              !.out = Append(@, <<batch.i, dec.data>>)]
    /\ dec' = DecIdle
    /\ UNCHANGED <<prog, numpy, tc, cks, message, data, enc, hex>>

\* decode_message has raised: the except clause prints the error and the loop goes
\* on, or, for an exception the clause does not name, the exception leaves the
\* function.
BatchExcept ==
    /\ batch.pc = "try" /\ dec.pc = "raise"
    /\ batch' = IF dec.exc.type \in Caught(prog)
                THEN [batch EXCEPT !.pc = "loop", !.i = @ + 1, !.errs = Append(@, batch.i)]
                ELSE [batch EXCEPT !.pc = "raise", !.exc = dec.exc]
    /\ dec' = DecIdle
    /\ UNCHANGED <<prog, numpy, tc, cks, message, data, enc, hex>>

\* The loop has ended: `return messages` / `return`.
BatchReturn ==
    /\ batch.pc = "loop" /\ batch.i = Len(batch.bufs)
    /\ batch' = [batch EXCEPT !.pc = "return"]
    /\ UNCHANGED <<prog, numpy, tc, cks, message, dec, data, enc, hex>>

NextChecksum == ChecksumLoop

NextDecode == DecodeCall \/ DecodeLoop \/ DecodeFinish

NextEncode == EncodeCall \/ Feed \/ DecodeCall \/ DecodeLoop \/ DecodeFinish

NextHex == Bin2ascCall \/ Asc2binCall

NextBatch ==
    BatchFetch \/ DecodeCall \/ DecodeLoop \/ DecodeFinish \/ BatchAppend \/ BatchExcept
        \/ BatchReturn

SpecChecksum == InitChecksum /\ [][NextChecksum]_vars

SpecDecode == InitDecode /\ [][NextDecode]_vars

SpecEncode == InitEncode /\ [][NextEncode]_vars

SpecHex == InitHex /\ [][NextHex]_vars

SpecBatch == InitBatch /\ [][NextBatch]_vars

Init == InitChecksum \/ InitDecode \/ InitEncode \/ InitHex \/ InitBatch

Next == NextChecksum \/ NextEncode \/ NextHex \/ NextBatch

Spec == Init /\ [][Next]_vars

(***************************************************************************)
(* Properties                                                              *)
(***************************************************************************)
\* decode_message has returned or raised.
Finished(st) == st.pc \in {"return", "raise"}

\* The offset at which decode_message looks for the start marker.
FrameStart(msg) == IF At(msg, 0) = STX THEN 0 ELSE 5

\* C1: at the end marker, with two bytes after it, decode_message raises
\* 'Checksum mismatch.' exactly when those two bytes differ from checksum() over
\* the bytes from the start marker through the end marker, and returns otherwise --
\* with or without a header before the start marker.
C1_ChecksumOverFrame ==
    [][ (dec.pc = "etx" /\ dec.ind + 2 < Len(message)) =>
            LET sum     == checksum(Slice(message, FrameStart(message), dec.ind + 1))
                trailer == <<At(message, dec.ind + 1), At(message, dec.ind + 2)>>
            IN  IF trailer # sum
                THEN dec'.pc = "raise" /\ dec'.exc = Exc("AssertionError", "Checksum mismatch.")
                ELSE dec'.pc = "return" ]_vars

\* The raw integer of a scaled value.
RawOf(name, value) == FTrunc(FDiv(value.v, CONVERSION_FACTOR[name]))

\* Two values of a field are equal, a scaled one up to one unit of the raw integer.
SameValue(name, a, b) ==
    IF name \in DOMAIN CONVERSION_FACTOR /\ a.t = "float" /\ b.t = "float"
    THEN RawOf(name, a) - RawOf(name, b) \in {-1, 0, 1}
    ELSE a = b

SameMessage(m1, m2) ==
    /\ DictKeys(m1) = DictKeys(m2)
    /\ \A k \in DictKeys(m1) : SameValue(k, DictGet(m1, k), DictGet(m2, k))

\* The values of a Message are legal: an array has the length its field declares.
LegalMessage(m) ==
    \A i \in DOMAIN m : m[i][2].t = "ndarray" => Len(m[i][2].v) = FIELD_TYPE[m[i][1]].n

\* C2: round trip -- for a Message of registry fields with legal values,
\* encode_message returns, decode_message returns on its output, and the decoded
\* Message has the same keys and equal values.
C2_RoundTrip ==
    (prog = "encode" /\ LegalMessage(data)) =>
        /\ enc.pc # "raise"
        /\ Finished(dec) => dec.pc = "return" /\ SameMessage(data, dec.data)

\* C3: header skip -- a well-formed frame after any 5-byte header decodes to the
\* Message the frame alone decodes to.
C3_HeaderSkip ==
    (tc.kind = "header" /\ Finished(dec)) =>
        LET alone == decode_message(FrameOf(tc.chunks))
        IN  alone.pc = "return" => dec.pc = "return" /\ dec.data = alone.data

\* The offset of field k of a frame (of its identifier byte).
ChunkStart(chunks, k) == 1 + Len(Concat(SubSeq(chunks, 1, k - 1)))

\* The buffer is a well-formed frame cut inside the payload of a field: the field's
\* identifier is there, its payload is not, or not all of it.
CutInsidePayload(t) ==
    /\ t.kind = "cut"
    /\ \A k \in DOMAIN t.chunks : t.chunks[k] \in GoodFields
    /\ \E k \in DOMAIN t.chunks :
          /\ ChunkStart(t.chunks, k) + 1 <= t.cut
          /\ t.cut < ChunkStart(t.chunks, k) + Len(t.chunks[k])

\* No value of the Message was built from fewer bytes than its field declares.
NoShortValue(m) ==
    \A i \in DOMAIN m :
        /\ m[i][2].t = "bytes" => Len(m[i][2].v) = FIELD_TYPE[m[i][1]].n
        /\ m[i][2].t = "ndarray" => Len(m[i][2].v) = FIELD_TYPE[m[i][1]].n

\* C4: truncation -- on a frame cut inside a field's payload decode_message ends in
\* the error of a truncated message, which is not the error of an unknown
\* identifier (ValueError) or of a bad marker or checksum (AssertionError); it
\* never returns, and never stores a value built from fewer bytes than declared.
C4_Truncation ==
    CutInsidePayload(tc) =>
        /\ NoShortValue(dec.data)
        /\ Finished(dec) =>
              dec.pc = "raise" /\ dec.exc.type \notin {"ValueError", "AssertionError"}

RECURSIVE Fletcher(_)
\* The reference: a and b_acc start at 0; for each byte b in order
\* a = (a + b) mod 256, then b_acc = (b_acc + a) mod 256.
Fletcher(d) ==
    IF d = <<>> THEN <<0, 0>>
    ELSE LET before == Fletcher(Front(d))
             a      == (before[1] + Last(d)) % 256
         IN  <<a, (before[2] + a) % 256>>

\* C5: checksum(data) is the reference two-accumulator computation: after each pass
\* of its loop the accumulators are those of the reference over the bytes read,
\* both in 0..255, and it returns the reference's pair for all of data.
C5_ChecksumIsFletcher ==
    prog = "checksum" =>
        /\ cks.cs_a \in 0..255 /\ cks.cs_b \in 0..255
        /\ <<cks.cs_a, cks.cs_b>> = Fletcher(Slice(cks.data, 0, cks.ind))
        /\ cks.pc = "return" =>
              /\ cks.ind = Len(cks.data)
              /\ checksum(cks.data) = Fletcher(cks.data)
              /\ checksum(cks.data) = <<cks.cs_a, cks.cs_b>>

\* C5, its case: checksum has returned for data whose sums pass 255.
C5_ChecksumWrapped ==
    /\ prog = "checksum" /\ cks.pc = "return"
    /\ Len(cks.data) >= 2 /\ cks.data[1] + cks.data[2] > 255

\* C6: the buffer 02 03 05 07 decodes without error to an empty Message, the
\* checksum of 02 03 being (5, 7); on 02 03 05 05 decode_message raises
\* 'Checksum mismatch.'.
C6_EmptyFrame ==
    /\ checksum(<<2, 3>>) = <<5, 7>>
    /\ (prog = "decode" /\ message = <<2, 3, 5, 7>>) =>
          /\ dec.pc # "raise"
          /\ dec.pc = "return" => dec.data = <<>>
    /\ (prog = "decode" /\ message = <<2, 3, 5, 5>> /\ Finished(dec)) =>
          dec.pc = "raise" /\ dec.exc = Exc("AssertionError", "Checksum mismatch.")

\* C6, its case: decode_message has returned on 02 03 05 07.
C6_EmptyFrameDecoded ==
    prog = "decode" /\ message = <<2, 3, 5, 7>> /\ dec.pc = "return" /\ dec.data = <<>>

\* C6 as the spec states it: the buffer 02 03 05 05 decodes without error to an
\* empty Message, the checksum of 02 03 being (5, 5).
C6_EmptyFrameAsStated ==
    (prog = "decode" /\ message = <<2, 3, 5, 5>> /\ Finished(dec)) =>
        /\ dec.pc = "return" /\ dec.data = <<>>
        /\ checksum(<<2, 3>>) = <<5, 5>>

\* The place of a field in the definition order of TrackerMessageFields.
RegistryIndex(name) ==
    CHOOSE i \in DOMAIN TrackerMessageFields : TrackerMessageFields[i].name = name

\* The keys of a Message in registry order.
KeysInRegistryOrder(m) ==
    CHOOSE s \in [1..Len(m) -> DictKeys(m)] :
        \A i, j \in 1..Len(m) : i < j => RegistryIndex(s[i]) < RegistryIndex(s[j])

\* The Messages with the entries of m, in every insertion order.
Reordered(m) == {[i \in DOMAIN m |-> m[q[i]]] : q \in Permutations(DOMAIN m)}

\* C7: what encode_message returns is the start marker, then for each key of the
\* Message in registry order its identifier and its payload, then the end marker
\* and the checksum; and a Message with the same entries inserted in another order
\* gives the same bytes (or the same exception).  Stated where encode_message has
\* just returned or raised.
C7_RegistryOrder ==
    (prog = "encode" /\ enc.pc \in {"return", "raise"} /\ dec.pc = "idle") =>
        /\ \A m \in Reordered(data) :
              /\ encode_message(m, numpy).exc = enc.exc
              /\ encode_message(m, numpy).bytes = enc.bytes
        /\ enc.pc = "return" =>
              LET keys == KeysInRegistryOrder(data)
                  body == <<STX>>
                          \o Concat([k \in 1..Len(keys) |->
                                <<TrackerMessageFields[RegistryIndex(keys[k])].value>>
                                \o EncodePayload(keys[k], DictGet(data, keys[k]), numpy).bytes])
                          \o <<ETX>>
              IN  enc.bytes = body \o <<checksum(body)[1], checksum(body)[2]>>

\* C7, its case: encode_message has returned for a Message whose keys were
\* inserted against the registry's order.
C7_InsertedOutOfOrder ==
    /\ prog = "encode" /\ enc.pc = "return" /\ dec.pc = "idle" /\ Len(data) >= 2
    /\ RegistryIndex(data[1][1]) > RegistryIndex(data[2][1])

\* C8: no key of a Message decode_message returns is a structural marker or a name
\* outside the registry.
C8_NoMarkerKeys ==
    dec.pc = "return" => DictKeys(dec.data) \subseteq (FieldNames \ {"STX", "ETX"})

\* C9: asc2bin raises the error of an invalid hex digit (the ValueError of int())
\* for every str of odd length and every str with a character that is no hex digit,
\* and returns bytes for the others only.
C9_InvalidHexRejected ==
    (prog = "asc2bin" /\ hex.pc \in {"return", "raise"}) =>
        ((hex.pc = "raise" /\ hex.exc.type = "ValueError")
            <=> (Len(hex.arg) % 2 = 1
                    \/ \E i \in DOMAIN hex.arg : ~IsAsciiHexDigit(hex.arg[i])))

\* The characters 0-9 and a-f.
LowerHexChars == {48, 49, 50, 51, 52, 53, 54, 55, 56, 57, 97, 98, 99, 100, 101, 102}

\* C10: hex round trip -- bin2asc(b) has 2 * len(b) characters, all of 0-9 and
\* a-f, and asc2bin returns b on it.
C10_HexRoundTrip ==
    prog = "bin2asc" =>
        /\ hex.pc # "bin2asc" =>
              /\ Len(hex.msg_asc) = 2 * Len(hex.arg)
              /\ \A i \in DOMAIN hex.msg_asc : hex.msg_asc[i] \in LowerHexChars
        /\ hex.pc # "raise"
        /\ hex.pc = "return" => hex.msg_bin = hex.arg

\* C10, its case: the round trip has ended for bytes with a one-digit byte and a
\* byte whose digits are letters.
C10_RoundTripDone ==
    /\ prog = "bin2asc" /\ hex.pc = "return"
    /\ \E i \in DOMAIN hex.arg : hex.arg[i] < 16
    /\ \E i \in DOMAIN hex.arg : hex.arg[i] = 171

\* A step in which DATETIME takes n payload bytes: decode_message, at the DATETIME
\* identifier (0x14) and going on to the next identifier, has moved its cursor past
\* the identifier and n bytes and has the DATETIME of the Message; encode_message,
\* for a Message of DATETIME alone, has returned start marker, identifier, n bytes,
\* end marker and two checksum bytes.
DatetimeOccupies(n) ==
    /\ (dec.pc = "loop" /\ dec.ind < Len(message) /\ At(message, dec.ind) = 20
            /\ dec'.pc = "loop") =>
          dec'.ind = dec.ind + 1 + n /\ DictHas(dec'.data, "DATETIME")
    /\ (enc'.pc = "return" /\ DictKeys(data) = {"DATETIME"}) =>
          /\ Len(enc'.bytes) = 1 + 1 + n + 1 + 2
          /\ enc'.bytes[1] = STX /\ enc'.bytes[2] = 20 /\ enc'.bytes[2 + n + 1] = ETX

\* C11: DATETIME occupies exactly 7 payload bytes on the wire (a 2-byte year and
\* five 1-byte components): decode_message moves 7 bytes past the identifier, and
\* encode_message emits 7 bytes after it.
C11_DatetimeSevenBytes == [][DatetimeOccupies(7)]_vars

\* C11, its case: a Message of DATETIME alone was encoded, and decode_message has
\* read the DATETIME of the encoded message and stands at the next identifier.
C11_DatetimeRead ==
    /\ prog = "encode" /\ enc.pc = "return" /\ DictKeys(data) = {"DATETIME"}
    /\ dec.pc = "loop" /\ dec.ind = 1 + 1 + 7 /\ DictHas(dec.data, "DATETIME")

\* C11 as the spec states it: DATETIME occupies exactly 6 payload bytes.
C11_DatetimeSixBytes == [][DatetimeOccupies(6)]_vars

\* The buffer at index k of the batch has been dealt with as a batch that isolates
\* failures deals with it: its Message is in the output when decode_message
\* returns one, its error has been reported when decode_message raises.
Isolated(k) ==
    \E r \in {decode_message(At(batch.bufs, k))} :
        IF r.pc = "return"
        THEN \E j \in 1..Len(batch.out) : batch.out[j] = <<k, r.data>>
        ELSE \E j \in 1..Len(batch.errs) : batch.errs[j] = k

\* C12: when get_messages or main_decode has finished with a batch, it has returned
\* (no exception has left it), every buffer that fails to decode has had its error
\* reported, and the Message of every buffer that decodes is in the output.
C12_BatchIsolation ==
    batch.pc \in {"return", "raise"} =>
        /\ batch.pc = "return"
        /\ \A k \in 0..(Len(batch.bufs) - 1) : Isolated(k)

====
